---- MODULE Spec2Model ----
(***************************************************************************)
(* Model of img2excel.py: a Tk front end (UI thread) that starts one       *)
(* conversion worker thread; the worker validates the image, walks its     *)
(* pixels in row-major order, quantizes each colour, resolves a fill style *)
(* through a bounded cache with nearest-colour fallback, and reports       *)
(* through a FIFO queue that the UI thread polls.                          *)
(*                                                                         *)
(* A hex colour string "FFRRGGBB" is a sequence of eight hex digits, each  *)
(* a number in 0..15.  The colour cache (a dict, which iterates in         *)
(* insertion order) is a sequence of [key, fill] entries.  The worksheet   *)
(* is represented by its most recent cell write (cell) together with the   *)
(* count of writes (processed); the pixel grid is read lazily, each pixel  *)
(* being drawn from PixelValues when the walker reads it.                  *)
(***************************************************************************)
EXTENDS Integers, Sequences, FiniteSets

VARIABLES
    is_running,         \* self.is_running
    quantization_bits,  \* self.quantization_bits
    queue,              \* self.queue, FIFO of [type, content, seq]
    progress_value,     \* self.progress["value"]
    pc,                 \* position of the worker thread
    width, height,      \* img.size
    color_cache,        \* color_cache, in insertion order
    style_count,        \* style_count
    warning_shown,      \* warning_shown
    total_pixels,       \* total_pixels
    processed,          \* processed
    x, y,               \* loop variables: the pixel the walker reads next
    quantized_rgb,      \* quantized_rgb of the pixel last read
    hex_color,          \* hex_color used for the last cell write
    cell,               \* last sheet.cell(...).fill assignment
    saved,              \* wb.save(output_path) has written the file
    runBits,            \* history: quantization_bits when the run started
    usedBits,           \* history: bits passed to quantize_color last
    path,               \* history: branch the last pixel took in the cache
    fellBack,           \* history: some pixel of this run took the fallback
    emitted,            \* history: messages put on the queue by this run
    seen,               \* history: distinct quantized colours of this run's
                        \* pixels, in order of first occurrence (TooMany
                        \* once they are more than MAX_STYLES)
    got,                \* history: messages of this run the UI has consumed
    lastKind,           \* history: type of the message the UI consumed last
    probe               \* a pure function applied to drawn arguments

vars == <<is_running, quantization_bits, queue, pc, width, height,
          color_cache, style_count, warning_shown, total_pixels, processed,
          x, y, quantized_rgb, hex_color, cell, saved, runBits, usedBits,
          path, fellBack, emitted, progress_value, seen, got, lastKind,
          probe>>

----------------------------------------------------------------------------
(* Bounds of the model *)

\* Style ceiling, scaled down from ExcelSizeValidator.MAX_STYLES = 64000.
MAX_STYLES == 2
\* Largest accepted image is MaxWidth x MaxHeight.
MaxWidth == 20
MaxHeight == 10
\* The worker waits while this many messages are unread.
MaxQueue == 2
\* The first MaxVaried pixels of an image take any colour of Palette, the
\* pixels after them are Background.
MaxVaried == 4

(* Program constants *)
MAX_ROWS == 1048576
MAX_COLS == 16384
PROGRESS_STEPS == 200

\* Slider positions offered to the user (the Scale runs from 1 to 8).
BitsValues == {4, 5}
\* Pixel colours of the images.
Palette == {<<0, 0, 0>>, <<0, 8, 8>>, <<0, 16, 16>>, <<255, 0, 0>>}
Background == <<0, 0, 0>>
\* pixels[x, y], for the pixel read after `done` others
PixelValues(done) == IF done < MaxVaried THEN Palette ELSE {Background}
Widths == {1, 2, MaxWidth, MAX_COLS + 1}
Heights == {1, 2, MaxHeight, MAX_ROWS + 1}

NoColor == <<>>
NoCell == [row |-> 0, column |-> 0, fill |-> NoColor]
NoEmitted == [progress |-> 0, warning |-> 0, success |-> 0, error |-> 0,
              cause |-> "none"]
NoProbe == [fn |-> "none"]

----------------------------------------------------------------------------
(* ColorQuantizer *)

Pow2(n) == IF n = 0 THEN 1 ELSE IF n = 1 THEN 2 ELSE IF n = 2 THEN 4
           ELSE IF n = 3 THEN 8 ELSE IF n = 4 THEN 16 ELSE IF n = 5 THEN 32
           ELSE IF n = 6 THEN 64 ELSE 128

\* Mutant: the value is not shifted back.
ClearLowNoShiftBack(c, shift) == c \div Pow2(shift)

\* (c >> shift) << shift
ClearLow(c, shift) == (c \div Pow2(shift)) * Pow2(shift)

\* Mutant: the shift is bits instead of 8 - bits.
QuantizeShiftIsBits(rgb, bits) ==
    <<ClearLow(rgb[1], bits), ClearLow(rgb[2], bits), ClearLow(rgb[3], bits)>>

quantize_color(rgb, bits) ==
    LET shift == 8 - bits
    IN  <<ClearLow(rgb[1], shift), ClearLow(rgb[2], shift),
          ClearLow(rgb[3], shift)>>

(* ExcelSizeValidator *)

\* Mutant: the column ceiling is not checked.
ValidateHeightOnly(w, h) ==
    IF h > MAX_ROWS THEN [ok |-> FALSE, msg |-> "height"]
    ELSE [ok |-> TRUE, msg |-> ""]

\* Mutant: a dimension equal to its ceiling is rejected.
ValidateStrict(w, h) ==
    IF h >= MAX_ROWS THEN [ok |-> FALSE, msg |-> "height"]
    ELSE IF w >= MAX_COLS THEN [ok |-> FALSE, msg |-> "width"]
    ELSE [ok |-> TRUE, msg |-> ""]

validate_size(w, h) ==
    IF h > MAX_ROWS THEN [ok |-> FALSE, msg |-> "height"]
    ELSE IF w > MAX_COLS THEN [ok |-> FALSE, msg |-> "width"]
    ELSE [ok |-> TRUE, msg |-> ""]

----------------------------------------------------------------------------
(* Hex encoding and colour distance *)

\* f"{c:02X}"
Hex2(c) == <<c \div 16, c % 16>>

\* f"FF{r:02X}{g:02X}{b:02X}"
FormatHex(rgb) == <<15, 15>> \o Hex2(rgb[1]) \o Hex2(rgb[2]) \o Hex2(rgb[3])

\* int(h[i:i + 2], 16) for i in (2, 4, 6), with 0-based i
hex_to_rgb(h) == <<16 * h[3] + h[4], 16 * h[5] + h[6], 16 * h[7] + h[8]>>

\* Mutant: the differences are summed without being squared.
ColorDistanceNoSquare(hex1, hex2) ==
    LET rgb1 == hex_to_rgb(hex1)
        rgb2 == hex_to_rgb(hex2)
    IN  (rgb1[1] - rgb2[1]) + (rgb1[2] - rgb2[2]) + (rgb1[3] - rgb2[3])

color_distance(hex1, hex2) ==
    LET rgb1 == hex_to_rgb(hex1)
        rgb2 == hex_to_rgb(hex2)
    IN  (rgb1[1] - rgb2[1]) * (rgb1[1] - rgb2[1])
      + (rgb1[2] - rgb2[2]) * (rgb1[2] - rgb2[2])
      + (rgb1[3] - rgb2[3]) * (rgb1[3] - rgb2[3])

----------------------------------------------------------------------------
(* Style cache *)

PatternFill(hex) == [start_color |-> hex, end_color |-> hex, fill_type |-> "solid"]

CacheKeys(cache) == [i \in 1..Len(cache) |-> cache[i].key]

InCache(hex, cache) == \E i \in 1..Len(cache) : cache[i].key = hex

\* color_cache[hex]
Lookup(cache, hex) ==
    cache[CHOOSE i \in 1..Len(cache) : cache[i].key = hex].fill

\* Mutant: the saturation test refuses the last style.
SaturatedEarly(count) == count + 1 >= MAX_STYLES

\* Mutant: the saturation test admits one style too many.
SaturatedOffByOne(count) == count > MAX_STYLES

\* style_count >= ExcelSizeValidator.MAX_STYLES
Saturated(count) == count >= MAX_STYLES

\* Mutant: a later key at the same distance replaces the one held.
CloserOrEqual(candidate, best, target) ==
    color_distance(candidate, target) <= color_distance(best, target)

\* min() keeps the element it holds unless a later one is strictly smaller
Closer(candidate, best, target) ==
    color_distance(candidate, target) < color_distance(best, target)

RECURSIVE MinFrom(_, _, _, _)
MinFrom(keys, i, best, target) ==
    IF i > Len(keys) THEN best
    ELSE MinFrom(keys, i + 1,
                 IF Closer(keys[i], best, target) THEN keys[i] ELSE best,
                 target)

\* Mutant: the fallback keeps the colour it was asked for.
NearestIsTarget(cache, target) == target

\* min(color_cache.keys(), key=lambda k: self.color_distance(k, hex_color))
NearestKey(cache, target) ==
    LET keys == CacheKeys(cache) IN MinFrom(keys, 2, keys[1], target)

\* Mutant: the new entry replaces the cache.
InsertReplacing(cache, hex) == <<[key |-> hex, fill |-> PatternFill(hex)]>>

\* color_cache[hex_color] = PatternFill(...)
Insert(cache, hex) == Append(cache, [key |-> hex, fill |-> PatternFill(hex)])

----------------------------------------------------------------------------
(* Messages *)

Msg(t, c) == [type |-> t, content |-> c]

\* processed / total_pixels * 100, kept as the exact ratio
Percent(done, total) == [num |-> done * 100, den |-> total]

\* self.progress["value"] = 0
ZeroPercent == [num |-> 0, den |-> 1]

\* processed % (total_pixels // 200) == 0, unless the divisor is zero
CheckpointStep(total) == total \div PROGRESS_STEPS

Kind(msgs, t) == SelectSeq(msgs, LAMBDA m : m.type = t)

Count(em, msgs) ==
    [em EXCEPT !.progress = @ + Len(Kind(msgs, "progress")),
               !.warning = @ + Len(Kind(msgs, "warning")),
               !.success = @ + Len(Kind(msgs, "success")),
               !.error = @ + Len(Kind(msgs, "error")),
               !.cause = IF Kind(msgs, "error") # <<>>
                         THEN Kind(msgs, "error")[1].content ELSE @]

\* Number of messages the run has put.
Emitted(em) == em.progress + em.warning + em.success + em.error

\* History: the i-th message a run puts carries seq = i.
Stamp(msgs, base) ==
    [i \in 1..Len(msgs) |->
        [type |-> msgs[i].type, content |-> msgs[i].content, seq |-> base + i]]

\* self.queue.put(...) for each message of msgs, in order
Put(msgs) ==
    /\ queue' = queue \o Stamp(msgs, Emitted(emitted))
    /\ emitted' = Count(emitted, msgs)

----------------------------------------------------------------------------
Init ==
    /\ is_running = FALSE
    /\ quantization_bits = 5
    /\ queue = <<>>
    /\ pc = "idle"
    /\ width = 0
    /\ height = 0
    /\ color_cache = <<>>
    /\ style_count = 0
    /\ warning_shown = FALSE
    /\ total_pixels = 0
    /\ processed = 0
    /\ x = 0
    /\ y = 0
    /\ quantized_rgb = NoColor
    /\ hex_color = NoColor
    /\ cell = NoCell
    /\ saved = FALSE
    /\ runBits = 5
    /\ usedBits = 5
    /\ path = "none"
    /\ fellBack = FALSE
    /\ emitted = NoEmitted
    /\ progress_value = ZeroPercent
    /\ seen = <<>>
    /\ got = 0
    /\ lastKind = "none"
    /\ probe = NoProbe

----------------------------------------------------------------------------
(* UI thread *)

update_quantization_bits(value) ==
    /\ quantization_bits' = value
    /\ UNCHANGED <<is_running, queue, pc, width, height, color_cache,
                   style_count, warning_shown, total_pixels, processed, x, y,
                   quantized_rgb, hex_color, cell, saved, runBits, usedBits,
                   path, fellBack, emitted, progress_value, seen, got,
                   lastKind, probe>>

\* Mutant: the guard against a second start is missing.
NeverRunning(running) == FALSE

\* if self.is_running: return
AlreadyRunning(running) == running

\* A new thread starts conversion_worker with fresh locals.
start_conversion ==
    IF AlreadyRunning(is_running)
    THEN UNCHANGED vars
    ELSE /\ is_running' = TRUE
         /\ progress_value' = ZeroPercent
         /\ pc' = "paths"
         /\ width' = 0
         /\ height' = 0
         /\ color_cache' = <<>>
         /\ style_count' = 0
         /\ warning_shown' = FALSE
         /\ total_pixels' = 0
         /\ processed' = 0
         /\ x' = 0
         /\ y' = 0
         /\ quantized_rgb' = NoColor
         /\ hex_color' = NoColor
         /\ cell' = NoCell
         /\ saved' = FALSE
         /\ runBits' = quantization_bits
         /\ usedBits' = quantization_bits
         /\ path' = "none"
         /\ fellBack' = FALSE
         /\ emitted' = NoEmitted
         /\ seen' = <<>>
         /\ got' = 0
         /\ UNCHANGED <<quantization_bits, queue, lastKind, probe>>

\* reset_ui
ResetUi ==
    /\ is_running' = FALSE
    /\ progress_value' = ZeroPercent

\* Mutant: the queue hands out the newest message first (queue.LifoQueue).
DequeueLifo(q) == [msg |-> q[Len(q)], rest |-> SubSeq(q, 1, Len(q) - 1)]

\* self.queue.get_nowait() of a queue.Queue
Dequeue(q) == [msg |-> Head(q), rest |-> Tail(q)]

\* One iteration of the while loop of process_queue: get_nowait and dispatch.
process_queue ==
    /\ queue # <<>>
    /\ LET m == Dequeue(queue).msg
       IN  /\ queue' = Dequeue(queue).rest
           /\ got' = got + 1
           /\ lastKind' = m.type
           /\ IF m.type = "progress"
              THEN /\ progress_value' = m.content
                   /\ UNCHANGED is_running
              ELSE IF m.type \in {"success", "error"}
              THEN ResetUi
              ELSE UNCHANGED <<is_running, progress_value>>
    /\ UNCHANGED <<quantization_bits, pc, width, height, color_cache,
                   style_count, warning_shown, total_pixels, processed, x, y,
                   quantized_rgb, hex_color, cell, saved, runBits, usedBits,
                   path, fellBack, emitted, seen, probe>>

----------------------------------------------------------------------------
(* Worker thread: conversion_worker *)

CanPut == Len(queue) < MaxQueue

\* Mutant: the handler swallows the exception.
ExceptSwallowed(e) == <<>>

\* except Exception as e: self.queue.put(("error", str(e)))
ExceptMsgs(e) == <<Msg("error", e)>>

\* Mutant: the return after the error is missing.
AfterErrorFallThrough == "open"

\* return, after an error was put
AfterError == "done"

\* Lines 127-137: read the two entries and check them.
WorkerPaths ==
    /\ pc = "paths"
    /\ CanPut
    /\ \E image_path \in {"", "img"}, output_dir \in {"", "out"},
          exists \in BOOLEAN :
         IF image_path = "" \/ output_dir = ""
         THEN /\ Put(<<Msg("error", "missing_path")>>)
              /\ pc' = AfterError
         ELSE IF ~exists
         THEN /\ Put(<<Msg("error", "missing_file")>>)
              /\ pc' = AfterError
         ELSE /\ pc' = "open"
              /\ UNCHANGED <<queue, emitted>>
    /\ UNCHANGED <<is_running, quantization_bits, width, height, color_cache,
                   style_count, warning_shown, total_pixels, processed, x, y,
                   quantized_rgb, hex_color, cell, saved, runBits, usedBits,
                   path, fellBack, progress_value, seen, got, lastKind, probe>>

\* Lines 140-167: decode, validate the size, create the workbook and the
\* walker's locals.
WorkerOpen ==
    /\ pc = "open"
    /\ CanPut
    /\ \E decoded \in BOOLEAN, w \in Widths, h \in Heights :
         IF ~decoded
         THEN /\ Put(ExceptMsgs("decode"))
              /\ pc' = "done"
              /\ UNCHANGED <<width, height, total_pixels>>
         ELSE /\ width' = w
              /\ height' = h
              /\ IF ~validate_size(w, h).ok
                 THEN /\ Put(<<Msg("error", validate_size(w, h).msg)>>)
                      /\ pc' = AfterError
                      /\ UNCHANGED total_pixels
                 ELSE /\ total_pixels' = w * h
                      /\ pc' = "pixel"
                      /\ UNCHANGED <<queue, emitted>>
    /\ UNCHANGED <<is_running, quantization_bits, color_cache, style_count,
                   warning_shown, processed, x, y, quantized_rgb, hex_color,
                   cell, saved, runBits, usedBits, path, fellBack,
                   progress_value, seen, got, lastKind, probe>>

\* for y in range(height): for x in range(width): the indices after (x, y)
NextX(px, w) == IF px + 1 < w THEN px + 1 ELSE 0

NextY(px, py, w) == IF px + 1 < w THEN py ELSE py + 1

LoopDone(py, h) == py >= h

\* Mutant: a saturated cache sends every colour to the fallback.
MissOrFull(hex, cache) == ~InCache(hex, cache) \/ Len(cache) >= MAX_STYLES

\* hex_color not in color_cache
Miss(hex, cache) == ~InCache(hex, cache)

\* History: q joins the colours seen unless it is one of them; more than
\* MAX_STYLES distinct colours are remembered as TooMany.
TooMany == <<<<-1, -1, -1>>>>

Remember(colours, q) ==
    IF colours = TooMany \/ \E i \in 1..Len(colours) : colours[i] = q
    THEN colours
    ELSE IF Len(colours) >= MAX_STYLES THEN TooMany
    ELSE Append(colours, q)

\* if not warning_shown: put the warning
WarningMsgs(fallback, shown) ==
    IF fallback /\ ~shown THEN <<Msg("warning", "merge")>> ELSE <<>>

\* Mutant: the flag is never set.
MarkWarnedNever(shown, fallback) == shown

\* warning_shown = True, inside the saturated branch
MarkWarned(shown, fallback) == shown \/ fallback

\* The exception, if any, that the iteration raises: min() of an empty
\* sequence, color_cache[hex_color] of a missing key, modulo by zero.
Raised(fallback, cache, used, step) ==
    IF fallback /\ cache = <<>> THEN "ValueError"
    ELSE IF ~InCache(used, cache) THEN "KeyError"
    ELSE IF step = 0 THEN "ZeroDivisionError"
    ELSE "none"

\* if processed % (total_pixels // 200) == 0: put the progress
ProgressMsgs(n, total) ==
    IF n % CheckpointStep(total) = 0
    THEN <<Msg("progress", Percent(n, total))>> ELSE <<>>

\* Lines 170-200: one iteration of the pixel loop.
WorkerPixel ==
    /\ pc = "pixel"
    /\ CanPut
    /\ \E rgb \in PixelValues(processed) :
         LET bits == quantization_bits
             q == quantize_color(rgb, bits)
             hex == FormatHex(q)
             miss == Miss(hex, color_cache)
             fallback == miss /\ Saturated(style_count)
             insert == miss /\ ~Saturated(style_count)
             warn == WarningMsgs(fallback, warning_shown)
             used == IF fallback /\ color_cache # <<>>
                     THEN NearestKey(color_cache, hex) ELSE hex
             cache == IF insert THEN Insert(color_cache, hex) ELSE color_cache
             n == processed + 1
             e == Raised(fallback, cache, used, CheckpointStep(total_pixels))
         IN  /\ usedBits' = bits
             /\ seen' = Remember(seen, q)
             /\ quantized_rgb' = q
             /\ path' = IF ~miss THEN "hit"
                        ELSE IF fallback THEN "fallback" ELSE "insert"
             /\ fellBack' = (fellBack \/ fallback)
             /\ warning_shown' = MarkWarned(warning_shown, fallback)
             /\ color_cache' = cache
             /\ style_count' = IF insert THEN style_count + 1 ELSE style_count
             /\ IF e \in {"ValueError", "KeyError"}
                THEN /\ Put(warn \o ExceptMsgs(e))
                     /\ pc' = "done"
                     /\ hex_color' = IF e = "KeyError" THEN used ELSE hex
                     /\ UNCHANGED <<cell, processed, x, y>>
                ELSE /\ hex_color' = used
                     /\ cell' = [row |-> y + 1, column |-> x + 1,
                                 fill |-> Lookup(cache, used)]
                     /\ processed' = n
                     /\ IF e = "ZeroDivisionError"
                        THEN /\ Put(warn \o ExceptMsgs(e))
                             /\ pc' = "done"
                             /\ UNCHANGED <<x, y>>
                        ELSE /\ Put(warn \o ProgressMsgs(n, total_pixels))
                             /\ x' = NextX(x, width)
                             /\ y' = NextY(x, y, width)
                             /\ pc' = IF LoopDone(NextY(x, y, width), height)
                                      THEN "save" ELSE "pixel"
    /\ UNCHANGED <<is_running, quantization_bits, width, height, total_pixels,
                   saved, runBits, progress_value, got, lastKind, probe>>

\* Lines 203-208: save the workbook and report.
WorkerSave ==
    /\ pc = "save"
    /\ CanPut
    /\ \E ok \in BOOLEAN :
         IF ok
         THEN /\ saved' = TRUE
              /\ Put(<<Msg("success", [path |-> "out", style_count |-> style_count])>>)
         ELSE /\ saved' = FALSE
              /\ Put(ExceptMsgs("save"))
    /\ pc' = "done"
    /\ UNCHANGED <<is_running, quantization_bits, width, height, color_cache,
                   style_count, warning_shown, total_pixels, processed, x, y,
                   quantized_rgb, hex_color, cell, runBits, usedBits, path,
                   fellBack, progress_value, seen, got, lastKind, probe>>

----------------------------------------------------------------------------
Next ==
    \/ \E value \in BitsValues : update_quantization_bits(value)
    \/ start_conversion
    \/ process_queue
    \/ WorkerPaths
    \/ WorkerOpen
    \/ WorkerPixel
    \/ WorkerSave

Spec == Init /\ [][Next]_vars

----------------------------------------------------------------------------
(* The pure functions, each applied once to arguments drawn from bounded   *)
(* sets                                                                    *)

appVars == <<is_running, quantization_bits, queue, pc, width, height,
             color_cache, style_count, warning_shown, total_pixels,
             processed, x, y, quantized_rgb, hex_color, cell, saved, runBits,
             usedBits, path, fellBack, emitted, progress_value, seen, got,
             lastKind>>

ProbeWidths == {0, 1, 100, MAX_COLS - 1, MAX_COLS, MAX_COLS + 1, 20000}
ProbeHeights == {0, 1, 10, 100, MAX_ROWS - 1, MAX_ROWS, MAX_ROWS + 1}
\* Every channel value in each position, beside the extreme values.
ProbeColors ==
    {<<c, d, e>> : c \in 0..255, d \in {0, 255}, e \in {0, 255}}
    \cup {<<d, c, e>> : c \in 0..255, d \in {0, 255}, e \in {0, 255}}
    \cup {<<d, e, c>> : c \in 0..255, d \in {0, 255}, e \in {0, 255}}
ProbeHex ==
    {FormatHex(<<r, g, b>>) : r \in {0, 8, 248, 255}, g \in {0, 8, 248, 255},
                              b \in {0, 8, 248, 255}}

ApplyValidate ==
    /\ probe = NoProbe
    /\ \E w \in ProbeWidths, h \in ProbeHeights :
         probe' = [fn |-> "validate_size", width |-> w, height |-> h,
                   result |-> validate_size(w, h)]
    /\ UNCHANGED appVars

ApplyQuantize ==
    /\ probe = NoProbe
    /\ \E rgb \in ProbeColors, bits \in 1..8 :
         probe' = [fn |-> "quantize_color", rgb |-> rgb, bits |-> bits,
                   result |-> quantize_color(rgb, bits),
                   again |-> quantize_color(quantize_color(rgb, bits), bits)]
    /\ UNCHANGED appVars

ApplyDistance ==
    /\ probe = NoProbe
    /\ \E a \in ProbeHex, b \in ProbeHex :
         probe' = [fn |-> "color_distance", a |-> a, b |-> b,
                   ab |-> color_distance(a, b), ba |-> color_distance(b, a),
                   aa |-> color_distance(a, a)]
    /\ UNCHANGED appVars

PureNext == ApplyValidate \/ ApplyQuantize \/ ApplyDistance

PureSpec == Init /\ [][PureNext]_vars

----------------------------------------------------------------------------
(* Definitions used by the properties *)

\* Squared Euclidean distance of two RGB triples.
SqDist(a, b) == (a[1] - b[1]) * (a[1] - b[1]) + (a[2] - b[2]) * (a[2] - b[2])
              + (a[3] - b[3]) * (a[3] - b[3])

\* The RGB triple a key encodes: the digits read as two-digit base-16 numbers.
KeyColor(key) ==
    CHOOSE c \in {quantize_color(p, b) : p \in Palette, b \in 1..8} :
        /\ key[3] * 16 + key[4] = c[1]
        /\ key[5] * 16 + key[6] = c[2]
        /\ key[7] * 16 + key[8] = c[3]

\* Distance of the i-th cache key to the quantized colour q.
KeyDist(cache, i, q) == SqDist(KeyColor(cache[i].key), q)

Terminals == emitted.success + emitted.error
Working == pc \in {"paths", "open", "pixel", "save"}
\* The worker takes a step of the pixel loop.
PixelStep == pc = "pixel" /\ (processed' # processed \/ pc' # "pixel")
Oversized == width > MAX_COLS \/ height > MAX_ROWS

----------------------------------------------------------------------------
(* C1: in every reachable state of a run the style cache holds at most     *)
(* MAX_STYLES entries.                                                     *)
C1_CacheBounded == Len(color_cache) <= MAX_STYLES

C1_Witness ==
    /\ pc = "pixel"
    /\ fellBack
    /\ Len(color_cache) = MAX_STYLES
    /\ processed > MAX_STYLES + 1

(* C2: a pixel whose quantized colour is no cache key, read while the      *)
(* cache holds MAX_STYLES entries, inserts nothing, and its cell receives  *)
(* the handle of a key at the minimum squared RGB distance to that colour, *)
(* the earliest inserted one among the keys at that distance.              *)
C2_NearestFallback ==
    [][(/\ PixelStep
        /\ Len(color_cache) = MAX_STYLES
        /\ \A i \in 1..Len(color_cache) :
              KeyColor(color_cache[i].key) # quantized_rgb')
       => /\ color_cache' = color_cache
          /\ style_count' = style_count
          /\ processed' = processed + 1
          /\ \E i \in 1..Len(color_cache) :
               /\ cell'.fill = color_cache[i].fill
               /\ cell'.fill.start_color = color_cache[i].key
               /\ \A j \in 1..Len(color_cache) :
                    /\ KeyDist(color_cache, i, quantized_rgb')
                         <= KeyDist(color_cache, j, quantized_rgb')
                    /\ KeyDist(color_cache, i, quantized_rgb')
                         = KeyDist(color_cache, j, quantized_rgb') => i <= j
      ]_vars

\* A fallback that had two keys at the minimum distance.
C2_Witness ==
    /\ path = "fallback"
    /\ Len(color_cache) = MAX_STYLES
    /\ \E i, j \in 1..Len(color_cache) :
         /\ i < j
         /\ color_cache[i].key = hex_color
         /\ cell.fill = color_cache[i].fill
         /\ KeyDist(color_cache, i, quantized_rgb)
              = KeyDist(color_cache, j, quantized_rgb)

(* C3: a run emits the warning at most once: the first pixel that takes    *)
(* the fallback emits it, no other step does, and the pixel that emits it  *)
(* is assigned and the loop goes on.                                       *)
C3_WarningOnce ==
    [][/\ emitted'.warning <= 1
       /\ PixelStep =>
            /\ emitted'.warning - emitted.warning
                 = IF path' = "fallback" /\ ~fellBack THEN 1 ELSE 0
            /\ emitted'.warning > emitted.warning =>
                 /\ processed' = processed + 1
                 /\ pc' \in {"pixel", "save"}
       /\ ~PixelStep => emitted'.warning \in {emitted.warning, 0}
       /\ ~fellBack' => emitted'.warning = 0
      ]_vars

\* The last pixel of an image fell back, silently, long after the first.
C3_Witness ==
    /\ pc = "save"
    /\ path = "fallback"
    /\ emitted.warning = 1
    /\ ~ \E i \in 1..Len(queue) : queue[i].type = "warning"

(* C4: a run on an image that passed the dimension validation, and whose   *)
(* save did not fail, ends with one success and no error; for a 1x1 image  *)
(* of pure red at bits = 5 the success carries style_count 1.              *)
C4_ValidImageSucceeds ==
    (pc = "done" /\ total_pixels > 0 /\ emitted.cause # "save") =>
        /\ emitted.success = 1
        /\ emitted.error = 0
        /\ (width = 1 /\ height = 1 /\ quantized_rgb = <<248, 0, 0>>) =>
              \A i \in 1..Len(queue) :
                  queue[i].type = "success" => queue[i].content.style_count = 1

(* C5: the walker assigns one cell per pixel in row-major order, pixel     *)
(* (x, y) to row y + 1 and column x + 1, and a run on an image within the  *)
(* ceilings ends with width * height assignments.                          *)
C5_RowMajorAllPixels ==
    /\ processed > 0 =>
         /\ cell.row = ((processed - 1) \div width) + 1
         /\ cell.column = ((processed - 1) % width) + 1
    /\ (pc = "done" /\ total_pixels > 0) => processed = width * height

(* C6: a run on an image wider or taller than the ceilings emits an error  *)
(* and nothing else: no cache entry, no cell, no progress, no warning, no  *)
(* save and no success.                                                    *)
C6_OversizedFailsFast ==
    Oversized =>
        /\ pc = "done"
        /\ emitted.error = 1
        /\ emitted.cause \in {"width", "height"}
        /\ emitted.cause = "width" => width > MAX_COLS
        /\ emitted.cause = "height" => height > MAX_ROWS
        /\ color_cache = <<>>
        /\ style_count = 0
        /\ cell = NoCell
        /\ processed = 0
        /\ emitted.progress = 0
        /\ emitted.warning = 0
        /\ emitted.success = 0
        /\ ~saved

C6_Witness ==
    /\ pc = "done"
    /\ width > MAX_COLS
    /\ height <= MAX_ROWS
    /\ emitted.cause = "width"
    /\ queue # <<>>

(* C7: every pixel of a run is quantized with the bits value that was      *)
(* active when the run started.                                            *)
C7_BitsFixedForRun == (Working /\ processed > 0) => usedBits = runBits

(* C8: resolving a style raises nothing, and the handle the cell receives  *)
(* is the cache's entry for the colour that was used, on a hit, on an      *)
(* insertion and on a fallback.                                            *)
C8_ResolveNeverFails ==
    /\ emitted.cause \notin {"ValueError", "KeyError"}
    /\ processed > 0 =>
         /\ path \in {"hit", "insert", "fallback"}
         /\ \E i \in 1..Len(color_cache) :
              /\ color_cache[i].key = hex_color
              /\ color_cache[i].fill = cell.fill

C8_Witness ==
    /\ path = "fallback"
    /\ pc = "pixel"
    /\ emitted.cause = "none"
    /\ KeyColor(hex_color) # quantized_rgb
    /\ cell.fill.start_color = hex_color

(* C9: a run that has ended has emitted exactly one terminal message,      *)
(* success or error, a run that has not ended none; the terminal message   *)
(* is the last message the run puts; a success comes only after every      *)
(* pixel was assigned and the file saved.                                  *)
C9_OneTerminal ==
    /\ pc = "done" => Terminals = 1
    /\ pc # "done" => Terminals = 0
    /\ \A i \in 1..Len(queue) :
         queue[i].type \in {"success", "error"} => i = Len(queue)
    /\ emitted.success = 1 =>
         /\ saved
         /\ processed = width * height
         /\ LoopDone(y, height)

C9_Witness ==
    /\ pc = "done"
    /\ emitted.success = 1
    /\ emitted.progress > 0
    /\ emitted.warning = 1

(* C10: a run that ends before the save step, on a missing path, a missing *)
(* file, a decode failure, an oversized image or an exception in the pixel *)
(* loop, has emitted one error with that cause, saved nothing and emitted  *)
(* no success.                                                             *)
C10_FatalBeforeSave ==
    (pc = "done" /\ (total_pixels = 0 \/ ~LoopDone(y, height))) =>
        /\ emitted.error = 1
        /\ emitted.success = 0
        /\ ~saved
        /\ emitted.cause \in
             IF width = 0 THEN {"missing_path", "missing_file", "decode"}
             ELSE IF total_pixels = 0 THEN {"width", "height"}
             ELSE {"ZeroDivisionError", "ValueError", "KeyError"}

C10_Witness ==
    /\ pc = "done"
    /\ total_pixels > 0
    /\ ~LoopDone(y, height)
    /\ emitted.cause = "ZeroDivisionError"
    /\ ~saved

(* C11: validate_size accepts exactly when height <= max_rows and          *)
(* width <= max_cols, a value equal to its ceiling included; a rejection   *)
(* names a dimension that is exceeded; (20000, 10) is rejected naming the  *)
(* width and (100, 100) is accepted.                                       *)
C11_ValidateSize ==
    probe.fn = "validate_size" =>
        /\ probe.result.ok <=>
             (probe.height <= MAX_ROWS /\ probe.width <= MAX_COLS)
        /\ ~probe.result.ok =>
             \/ probe.result.msg = "height" /\ probe.height > MAX_ROWS
             \/ probe.result.msg = "width" /\ probe.width > MAX_COLS
        /\ (probe.width = 20000 /\ probe.height = 10) =>
             (~probe.result.ok /\ probe.result.msg = "width")
        /\ (probe.width = 100 /\ probe.height = 100) => probe.result.ok

C11_Witness ==
    /\ probe.fn = "validate_size"
    /\ probe.width = MAX_COLS
    /\ probe.height = MAX_ROWS
    /\ probe.result.ok

(* C12: quantize_color clears the low 8 - bits bits of each channel on its *)
(* own: c - (c mod 2^(8 - bits)); (255,255,255) is unchanged at bits = 8   *)
(* and (128,128,128) at bits = 1, (255,0,0) is (248,0,0) at bits = 5.      *)
C12_QuantizeClearsLowBits ==
    probe.fn = "quantize_color" =>
        /\ \A i \in 1..3 :
             probe.result[i]
               = probe.rgb[i] - (probe.rgb[i] % (2 ^ (8 - probe.bits)))
        /\ Len(probe.result) = 3
        /\ (probe.rgb = <<255, 255, 255>> /\ probe.bits = 8) =>
             probe.result = <<255, 255, 255>>
        /\ (probe.rgb = <<255, 255, 255>> /\ probe.bits = 1) =>
             probe.result = <<128, 128, 128>>
        /\ (probe.rgb = <<255, 0, 0>> /\ probe.bits = 5) =>
             probe.result = <<248, 0, 0>>

C12_Witness ==
    /\ probe.fn = "quantize_color"
    /\ probe.rgb = <<255, 0, 0>>
    /\ probe.bits = 5
    /\ probe.result = <<248, 0, 0>>

(* C13: quantizing a quantized colour again with the same bits changes     *)
(* nothing.                                                                *)
C13_QuantizeIdempotent ==
    probe.fn = "quantize_color" => probe.again = probe.result

C13_Witness ==
    /\ probe.fn = "quantize_color"
    /\ probe.result # probe.rgb
    /\ probe.again = probe.result

C15_DistanceZeroSymmetric ==
    probe.fn = "color_distance" =>
        /\ probe.aa = 0
        /\ probe.ab = probe.ba

C15_Witness ==
    /\ probe.fn = "color_distance"
    /\ probe.a # probe.b
    /\ probe.ab > 0
    /\ probe.ab = probe.ba

(* C16: the UI consumes the messages of a run in the order the worker put  *)
(* them, each once and none lost: the queue holds the messages numbered    *)
(* got + 1 .. got + Len(queue) in that order, a success or error is the    *)
(* last message its run put, and once a finished run's queue is empty the  *)
(* message consumed last was its success or error.                         *)
C16_EmissionOrder ==
    /\ got + Len(queue) = Emitted(emitted)
    /\ \A i \in 1..Len(queue) :
         /\ queue[i].seq = got + i
         /\ queue[i].type \in {"success", "error"} =>
              /\ i = Len(queue)
              /\ pc = "done"
    /\ (pc = "done" /\ queue = <<>>) => lastKind \in {"success", "error"}
    /\ ~is_running => queue = <<>>

C16_Witness ==
    /\ pc = "done"
    /\ queue = <<>>
    /\ emitted.warning = 1
    /\ emitted.progress > 1
    /\ emitted.success = 1
    /\ got = Emitted(emitted)
    /\ lastKind = "success"

(* C17: every step of a conversion other than the start of a new one       *)
(* keeps each key of the cache, with the handle stored for it.             *)
C17_CacheOnlyGrows ==
    [][~(pc # "paths" /\ pc' = "paths") =>
          \A i \in 1..Len(color_cache) :
              /\ InCache(color_cache[i].key, color_cache')
              /\ Lookup(color_cache', color_cache[i].key) = color_cache[i].fill
      ]_vars

C17_Witness ==
    /\ pc = "done"
    /\ emitted.success = 1
    /\ Len(color_cache) = MAX_STYLES
    /\ fellBack

(* C18: a pixel whose quantized colour is a cache key gets that key's      *)
(* handle in its cell and leaves the cache, the style count and the        *)
(* warning flag as they were; it takes no fallback and puts no warning,    *)
(* saturated cache or not.                                                 *)
C18_HitFrame ==
    [][(PixelStep /\ InCache(FormatHex(quantized_rgb'), color_cache)) =>
          /\ processed' = processed + 1
          /\ cell'.fill = Lookup(color_cache, FormatHex(quantized_rgb'))
          /\ hex_color' = FormatHex(quantized_rgb')
          /\ color_cache' = color_cache
          /\ style_count' = style_count
          /\ warning_shown' = warning_shown
          /\ fellBack' = fellBack
          /\ emitted'.warning = emitted.warning
          /\ path' = "hit"
      ]_vars

C18_Witness ==
    /\ path = "hit"
    /\ Saturated(style_count)
    /\ Len(color_cache) = MAX_STYLES
    /\ cell.fill = Lookup(color_cache, FormatHex(quantized_rgb))
    /\ ~warning_shown
    /\ emitted.warning = 0

(* C19: on an image that passed validation the checkpoint computation      *)
(* never ends the run, a progress message has been put for each positive   *)
(* multiple of total_pixels div 200 among the pixels processed, and the    *)
(* percentages waiting in the queue are at most 100 and increasing.        *)
C19_ProgressCheckpoints ==
    total_pixels > 0 =>
        /\ emitted.cause # "ZeroDivisionError"
        /\ CheckpointStep(total_pixels) > 0 =>
             emitted.progress = processed \div CheckpointStep(total_pixels)
        /\ \A i \in 1..Len(queue) :
             queue[i].type = "progress" =>
                 /\ queue[i].content.den = total_pixels
                 /\ queue[i].content.num <= 100 * total_pixels
                 /\ \A j \in 1..(i - 1) :
                      queue[j].type = "progress" =>
                          queue[j].content.num < queue[i].content.num

(* C20: a worker starts only while is_running is false and no worker is    *)
(* active; is_running rises only with such a start and falls only when a   *)
(* success or error is consumed, never with a progress or a warning; and   *)
(* whenever is_running is false no worker is active and the queue is       *)
(* empty, so that a new conversion can start.                              *)
C20_SingleWorker ==
    [][/\ (pc' = "paths" /\ (pc # "paths" \/ emitted' # emitted)) =>
            /\ ~is_running
            /\ is_running'
            /\ pc \in {"idle", "done"}
       /\ (~is_running /\ is_running') => (pc \in {"idle", "done"} /\ pc' = "paths")
       /\ got' = got + 1 =>
            /\ queue # <<>>
            /\ Head(queue).type \in {"success", "error"} => ~is_running'
            /\ Head(queue).type \in {"progress", "warning"} =>
                 is_running' = is_running
       /\ (is_running /\ ~is_running') =>
            /\ got' = got + 1
            /\ lastKind' \in {"success", "error"}
       /\ ~is_running' => (pc' \in {"idle", "done"} /\ queue' = <<>>)
      ]_vars

C20_Witness ==
    /\ is_running
    /\ pc = "paths"
    /\ lastKind \in {"success", "error"}
    /\ got = 0
    /\ queue = <<>>

====
